---- MODULE Spec2Model ----
(***************************************************************************)
(* A model of the MIDI decoder and the threaded renderer of rustysynth:    *)
(* Message, MidiFile::read_track, MidiFile::cast_delta,                    *)
(* MidiFile::new_with_loop_type, ThreadedRender::new and                   *)
(* ThreadedRender::render.                                                 *)
(*                                                                         *)
(* Integers are the machine integers of the source: i32 arithmetic wraps   *)
(* (or panics, with overflow checks compiled in).  Times are f64 in the    *)
(* source; here a time is an exact rational, kept as the numerator of a    *)
(* fraction whose denominator is resolution * 1000000, with the IEEE       *)
(* values NaN and +-infinity kept apart.                                   *)
(***************************************************************************)
EXTENDS Integers, Sequences, FiniteSets, TLC

(***************************************************************************)
(* Machine integers                                                        *)
(***************************************************************************)
MaxI32 == 2147483647
MinI32 == (-2147483647) - 1
Pow24 == 16777216

\* a + b in i32 two's complement, computed without leaving the i32 range
AddOverflows(a, b) ==
    \/ (a > 0 /\ b > 0 /\ a > MaxI32 - b)
    \/ (a < 0 /\ b < 0 /\ a < MinI32 - b)

WrapAdd(a, b) ==
    IF a > 0 /\ b > 0 /\ a > MaxI32 - b THEN (a + MinI32) + (b + MinI32)
    ELSE IF a < 0 /\ b < 0 /\ a < MinI32 - b THEN (a - MinI32) + (b - MinI32)
    ELSE a + b

\* (acc << 7) | low7 in i32: bits 25..31 of acc are shifted out, bit 24
\* becomes the sign bit
Shl7Or(acc, low7) ==
    LET low  == acc % Pow24
        b24  == (acc \div Pow24) % 2
        body == low * 128 + low7
    IN  IF b24 = 1 THEN body + MinI32 ELSE body

(***************************************************************************)
(* Message                                                                 *)
(***************************************************************************)
NORMAL == 0
TEMPO_CHANGE == 252
LOOP_START == 253
LOOP_END == 254
END_OF_TRACK == 255

\* MidiFileLoopType; LoopPoint(p) is the pair <<"LoopPoint", p>>
LoopPoint(p) == [kind |-> "LoopPoint", point |-> p]
LoopKind(k) == [kind |-> k, point |-> 0]

Msg(ch, cmd, d1, d2) == [channel |-> ch, command |-> cmd, data1 |-> d1, data2 |-> d2]

loop_start == Msg(LOOP_START, 0, 0, 0)
loop_end == Msg(LOOP_END, 0, 0, 0)
end_of_track == Msg(END_OF_TRACK, 0, 0, 0)

common1(status, data1) == Msg(status % 16, status - (status % 16), data1, 0)

\* common2 without the test of the command nibble
common2_any_command(status, data1, data2, loop_type) ==
    IF loop_type.kind = "RpgMaker" /\ data1 = 111 THEN loop_start
    ELSE IF loop_type.kind = "IncredibleMachine" /\ data1 = 110 THEN loop_start
    ELSE IF loop_type.kind = "IncredibleMachine" /\ data1 = 111 THEN loop_end
    ELSE IF loop_type.kind = "FinalFantasy" /\ data1 = 116 THEN loop_start
    ELSE IF loop_type.kind = "FinalFantasy" /\ data1 = 117 THEN loop_end
    ELSE Msg(status % 16, status - (status % 16), data1, data2)

common2(status, data1, data2, loop_type) ==
    LET channel == status % 16
        command == status - (status % 16)
    IN  IF command = 176 /\ loop_type.kind = "RpgMaker" /\ data1 = 111
            THEN loop_start
        ELSE IF command = 176 /\ loop_type.kind = "IncredibleMachine" /\ data1 = 110
            THEN loop_start
        ELSE IF command = 176 /\ loop_type.kind = "IncredibleMachine" /\ data1 = 111
            THEN loop_end
        ELSE IF command = 176 /\ loop_type.kind = "FinalFantasy" /\ data1 = 116
            THEN loop_start
        ELSE IF command = 176 /\ loop_type.kind = "FinalFantasy" /\ data1 = 117
            THEN loop_end
        ELSE Msg(channel, command, data1, data2)

\* tempo is the 24-bit value read by read_tempo
tempo_change(tempo) ==
    Msg(TEMPO_CHANGE, (tempo \div 65536) % 256, (tempo \div 256) % 256, tempo % 256)

get_message_type(m) ==
    IF m.channel \in {TEMPO_CHANGE, LOOP_START, LOOP_END, END_OF_TRACK}
    THEN m.channel ELSE NORMAL

\* the microseconds per quarter note packed in a TEMPO_CHANGE; get_tempo is
\* 60000000 / Uspq(m) beats per minute
Uspq(m) == m.command * 65536 + m.data1 * 256 + m.data2

Ev(m, t) == [msg |-> m, tick |-> t]

(***************************************************************************)
(* BinaryReader over a byte stream.  A reader is [pos, count]: pos is the   *)
(* position in the stream, count the bytes ReadCounter has seen.  A read   *)
(* result adds ok (FALSE: UnexpectedEof) and val.                          *)
(***************************************************************************)
Rd(ok, val, pos, count) == [ok |-> ok, val |-> val, pos |-> pos, count |-> count]

read_u8(data, r) ==
    IF r.pos < Len(data)
    THEN Rd(TRUE, data[r.pos + 1], r.pos + 1, r.count + 1)
    ELSE Rd(FALSE, 0, r.pos, r.count)

\* four bytes, returned as a sequence
read_four_cc(data, r) ==
    IF r.pos + 4 <= Len(data)
    THEN Rd(TRUE, SubSeq(data, r.pos + 1, r.pos + 4), r.pos + 4, r.count + 4)
    ELSE Rd(FALSE, <<>>, r.pos, r.count)

I32BE(b) ==
    ((((IF b[1] < 128 THEN b[1] ELSE b[1] - 256) * 256 + b[2]) * 256) + b[3]) * 256 + b[4]

read_i32_big_endian(data, r) ==
    IF r.pos + 4 <= Len(data)
    THEN Rd(TRUE, I32BE(SubSeq(data, r.pos + 1, r.pos + 4)), r.pos + 4, r.count + 4)
    ELSE Rd(FALSE, 0, r.pos, r.count)

\* SMF variable-length quantity: 7-bit groups accumulated into an i32 while
\* the high bit is set; no cap on the number of bytes
RECURSIVE VarLenFrom(_, _, _)
VarLenFrom(data, r, acc) ==
    LET b == read_u8(data, r)
    IN  IF ~b.ok THEN b
        ELSE IF b.val < 128 THEN Rd(TRUE, Shl7Or(acc, b.val), b.pos, b.count)
        ELSE VarLenFrom(data, b, Shl7Or(acc, b.val % 128))

read_i32_variable_length(data, r) == VarLenFrom(data, r, 0)

\* BinaryReader::discard_data(reader, n): advance n bytes (a seek, counted by
\* ReadCounter::seek; going past the end is not an error until the next read)
Discard(r, n) == Rd(n >= 0, 0, r.pos + n, r.count + n)

\* MidiFile::discard_data: a variable-length size, then that many bytes
DiscardSized(s) == IF ~s.ok THEN s ELSE Discard(s, s.val)

discard_data(data, r) == DiscardSized(read_i32_variable_length(data, r))

\* MidiFile::read_tempo: val is the tempo, or -1 for InvalidTempoValue
TempoSized(data, s) ==
    LET b1 == read_u8(data, s)
        b2 == read_u8(data, b1)
        b3 == read_u8(data, b2)
    IN  IF ~s.ok THEN s
        ELSE IF s.val # 3 THEN Rd(TRUE, -1, s.pos, s.count)
        ELSE IF ~b1.ok THEN b1
        ELSE IF ~b2.ok THEN b2
        ELSE IF ~b3.ok THEN b3
        ELSE Rd(TRUE, b1.val * 65536 + b2.val * 256 + b3.val, b3.pos, b3.count)

read_tempo(data, r) == TempoSized(data, read_i32_variable_length(data, r))

(***************************************************************************)
(* MidiFile::read_track.  The state of one call:                           *)
(*   pc: "loop" | "ok" | "err" | "panic"; err: the error kind;             *)
(*   pos, count: the reader and its ReadCounter; size: the declared size;  *)
(*   tick, last_status, events: the locals of the loop.                    *)
(***************************************************************************)
MTrk == <<77, 84, 114, 107>>

RtFail(st, r, e) ==
    [st EXCEPT !.pc = "err", !.err = e, !.pos = r.pos, !.count = r.count]

\* push (m, tick) and go round the loop with last_status = status
RtEmit(st, r, tick, m, status) ==
    [st EXCEPT !.pos = r.pos, !.count = r.count, !.tick = tick,
               !.events = Append(@, Ev(m, tick)), !.last_status = status]

RtSkip(st, r, tick, status) ==
    [st EXCEPT !.pos = r.pos, !.count = r.count, !.tick = tick,
               !.last_status = status]

\* lines 317-332: the tag, the size, the ReadCounter and the locals
read_track_begin(data, pos) ==
    LET st0 == [pc |-> "loop", err |-> "", pos |-> pos, count |-> 0, size |-> 0,
                tick |-> 0, last_status |-> 0, events |-> <<>>]
        cc  == read_four_cc(data, Rd(TRUE, 0, pos, 0))
        sz  == read_i32_big_endian(data, cc)
    IN  IF ~cc.ok THEN RtFail(st0, cc, "Io")
        ELSE IF cc.val # MTrk THEN RtFail(st0, cc, "InvalidChunkType")
        ELSE IF ~sz.ok THEN RtFail(st0, sz, "Io")
        ELSE [st0 EXCEPT !.pos = sz.pos, !.size = sz.val]

\* RunningStatus with last_status overwritten by the data byte, as it would be
\* without the continue of line 349
RunningStatusUpdating(data, st, f, tick, loop_type) ==
    LET command == st.last_status - (st.last_status % 16)
        d2      == read_u8(data, f)
    IN  IF command = 192 \/ command = 208
        THEN RtEmit(st, f, tick, common1(st.last_status, f.val), f.val)
        ELSE IF ~d2.ok THEN RtFail(st, d2, "Io")
        ELSE RtEmit(st, d2, tick,
                    common2(st.last_status, f.val, d2.val, loop_type), f.val)

\* lines 340-350: first has the high bit clear; f is the reader after first
RunningStatus(data, st, f, tick, loop_type) ==
    LET command == st.last_status - (st.last_status % 16)
        d2      == read_u8(data, f)
    IN  IF command = 192 \/ command = 208
        THEN RtEmit(st, f, tick, common1(st.last_status, f.val), st.last_status)
        ELSE IF ~d2.ok THEN RtFail(st, d2, "Io")
        ELSE RtEmit(st, d2, tick,
                    common2(st.last_status, f.val, d2.val, loop_type), st.last_status)

\* lines 353-354: SysEx
\* the event's bytes were discarded (d): nothing is pushed
Skipped(st, d, tick, status) ==
    IF ~d.ok THEN RtFail(st, d, "Io") ELSE RtSkip(st, d, tick, status)

SysEx(data, st, f, tick) == Skipped(st, discard_data(data, f), tick, f.val)

\* lines 356-367: end of track
EndOfTrack(data, st, ty, tick) ==
    LET len == read_u8(data, ty)
        rest == IF len.count < st.size THEN Discard(len, st.size - len.count) ELSE len
    IN  IF ~len.ok THEN RtFail(st, len, "Io")
        ELSE [st EXCEPT !.pc = "ok", !.pos = rest.pos, !.count = rest.count,
                        !.tick = tick,
                        !.events = Append(@, Ev(end_of_track, tick))]

\* lines 355-372: a meta event
\* lines 368-370: tp is what read_tempo returned
SetTempo(st, tp, tick, status) ==
    IF ~tp.ok THEN RtFail(st, tp, "Io")
    ELSE IF tp.val = -1 THEN RtFail(st, tp, "InvalidTempoValue")
    ELSE RtEmit(st, tp, tick, tempo_change(tp.val), status)

Meta(data, st, f, tick) ==
    LET ty == read_u8(data, f)
    IN  IF ~ty.ok THEN RtFail(st, ty, "Io")
        ELSE IF ty.val = 47 THEN EndOfTrack(data, st, ty, tick)
        ELSE IF ty.val = 81 THEN SetTempo(st, read_tempo(data, ty), tick, f.val)
        ELSE Skipped(st, discard_data(data, ty), tick, f.val)

\* lines 373-383: any other first byte with the high bit set
ChannelStatus(data, st, f, tick, loop_type) ==
    LET command == f.val - (f.val % 16)
        d1      == read_u8(data, f)
        d2      == read_u8(data, d1)
    IN  IF ~d1.ok THEN RtFail(st, d1, "Io")
        ELSE IF command = 192 \/ command = 208
            THEN RtEmit(st, d1, tick, common1(f.val, d1.val), f.val)
        ELSE IF ~d2.ok THEN RtFail(st, d2, "Io")
        ELSE RtEmit(st, d2, tick, common2(f.val, d1.val, d2.val, loop_type), f.val)

\* lines 335-386: one iteration of the loop.  checks: the build has overflow
\* checks, so tick += delta panics instead of wrapping
\* lines 340-384: the event that starts with first (f), at tick
Event(data, st, f, tick, loop_type) ==
    IF f.val < 128 THEN RunningStatus(data, st, f, tick, loop_type)
    ELSE IF f.val = 240 \/ f.val = 247 THEN SysEx(data, st, f, tick)
    ELSE IF f.val = 255 THEN Meta(data, st, f, tick)
    ELSE ChannelStatus(data, st, f, tick, loop_type)

\* lines 336-338: first is read (f) and delta is added to tick
AfterDelta(data, st, delta, f, loop_type, checks) ==
    IF ~f.ok THEN RtFail(st, f, "Io")
    ELSE IF checks /\ AddOverflows(st.tick, delta)
        THEN [st EXCEPT !.pc = "panic", !.pos = f.pos, !.count = f.count]
    ELSE Event(data, st, f, WrapAdd(st.tick, delta), loop_type)

\* line 335: d is what read_i32_variable_length returned
ReadDelta(data, st, d, loop_type, checks) ==
    IF ~d.ok THEN RtFail(st, d, "Io")
    ELSE AfterDelta(data, st, d.val, read_u8(data, d), loop_type, checks)

read_track_step(data, st, loop_type, checks) ==
    ReadDelta(data, st, read_i32_variable_length(data, Rd(TRUE, 0, st.pos, st.count)),
              loop_type, checks)

RECURSIVE RtRun(_, _, _, _)
RtRun(data, st, loop_type, checks) ==
    IF st.pc # "loop" THEN st
    ELSE RtRun(data, read_track_step(data, st, loop_type, checks), loop_type, checks)

\* the whole call, from a reader at pos
read_track(data, pos, loop_type, checks) ==
    RtRun(data, read_track_begin(data, pos), loop_type, checks)

(***************************************************************************)
(* f64 times.  With resolution # 0 every time cast_delta computes is the   *)
(* exact rational n / (resolution * 1000000) seconds, kept as Fin(n); with *)
(* resolution = 0 the divisions give the IEEE values below.                *)
(***************************************************************************)
Fin(n) == [k |-> "fin", n |-> n]
NaN == [k |-> "nan", n |-> 0]
PInf == [k |-> "pinf", n |-> 0]
NInf == [k |-> "ninf", n |-> 0]

\* a + b
FAdd(a, b) ==
    IF a.k = "nan" \/ b.k = "nan" THEN NaN
    ELSE IF a.k = "fin" /\ b.k = "fin" THEN Fin(a.n + b.n)
    ELSE IF a.k = "fin" THEN b
    ELSE IF b.k = "fin" THEN a
    ELSE IF a.k = b.k THEN a
    ELSE NaN

\* a <= b, for times over the same resolution
FLe(a, b, resolution) ==
    IF a.k = "nan" \/ b.k = "nan" THEN FALSE
    ELSE IF a.k = "ninf" \/ b.k = "pinf" THEN TRUE
    ELSE IF a.k = "pinf" \/ b.k = "ninf" THEN FALSE
    ELSE IF resolution > 0 THEN a.n <= b.n
    ELSE a.n >= b.n

\* tempo = 120.0 (line 409) is 500000 microseconds per quarter note
DefaultUspq == 500000

\* line 418: 60.0 / (resolution * tempo) * delta_tick, with
\* tempo = 60000000 / uspq (infinite when uspq = 0)
DeltaTime(resolution, uspq, delta_tick) ==
    IF resolution # 0 THEN Fin(delta_tick * uspq)
    ELSE IF uspq = 0 \/ delta_tick = 0 THEN NaN
    ELSE IF delta_tick > 0 THEN PInf
    ELSE NInf

SubOverflows(a, b) ==
    \/ (a >= 0 /\ b < 0 /\ a > MaxI32 + b)
    \/ (a < 0 /\ b > 0 /\ a < MinI32 + b)

WrapSub(a, b) ==
    IF a >= 0 /\ b < 0 /\ a > MaxI32 + b THEN (a + MinI32) - (b - MinI32)
    ELSE IF a < 0 /\ b > 0 /\ a < MinI32 + b THEN (a - MinI32) - (b + MinI32)
    ELSE a - b

(***************************************************************************)
(* MidiFile::cast_delta.  The locals of the loop: index, current_tick,     *)
(* current_time, uspq (for tempo), messages, times; panic is set when the  *)
(* tick subtraction overflows in a build with overflow checks.             *)
(***************************************************************************)
CastStart ==
    [index |-> 1, current_tick |-> 0, current_time |-> Fin(0), uspq |-> DefaultUspq,
     messages |-> <<>>, times |-> <<>>, panic |-> FALSE]

\* a loop body that lets a TEMPO_CHANGE act on the interval that ends at it
cast_delta_step_early(track, resolution, c, checks) ==
    LET next_tick  == track[c.index].tick
        delta_tick == WrapSub(next_tick, c.current_tick)
        message    == track[c.index].msg
        is_tempo   == get_message_type(message) = TEMPO_CHANGE
        uspq       == IF is_tempo THEN Uspq(message) ELSE c.uspq
        time       == FAdd(c.current_time, DeltaTime(resolution, uspq, delta_tick))
    IN  IF checks /\ SubOverflows(next_tick, c.current_tick)
        THEN [c EXCEPT !.panic = TRUE]
        ELSE [c EXCEPT !.index = @ + 1, !.current_tick = next_tick,
                       !.current_time = time, !.uspq = uspq,
                       !.messages = IF is_tempo THEN @ ELSE Append(@, message),
                       !.times = IF is_tempo THEN @ ELSE Append(@, time)]

\* lines 416-431: one iteration of the loop
cast_delta_step(track, resolution, c, checks) ==
    LET next_tick  == track[c.index].tick
        delta_tick == WrapSub(next_tick, c.current_tick)
        delta_time == DeltaTime(resolution, c.uspq, delta_tick)
        time       == FAdd(c.current_time, delta_time)
        message    == track[c.index].msg
        is_tempo   == get_message_type(message) = TEMPO_CHANGE
    IN  IF checks /\ SubOverflows(next_tick, c.current_tick)
        THEN [c EXCEPT !.panic = TRUE]
        ELSE [c EXCEPT !.index = @ + 1, !.current_tick = next_tick,
                       !.current_time = time,
                       !.uspq = IF is_tempo THEN Uspq(message) ELSE @,
                       !.messages = IF is_tempo THEN @ ELSE Append(@, message),
                       !.times = IF is_tempo THEN @ ELSE Append(@, time)]

RECURSIVE CastLoop(_, _, _, _)
CastLoop(track, resolution, c, checks) ==
    IF c.panic \/ c.index > Len(track) THEN c
    ELSE CastLoop(track, resolution, cast_delta_step(track, resolution, c, checks), checks)

\* line 434: (MidiTrack { messages, times }, current_time)
CastResult(c) ==
    [messages |-> c.messages, times |-> c.times, length |-> c.current_time,
     panic |-> c.panic]

\* an empty track gives the empty MidiTrack and 0.0 (lines 391-399), as the
\* loop does
cast_delta(track, resolution, checks) ==
    CastResult(CastLoop(track, resolution, CastStart, checks))

\* floor(k * n / den) for k >= 0, n >= 0, den > 0, as [q, r] with
\* k * n = q * den + r, by k additions of n
RECURSIVE MulDiv(_, _, _)
MulDiv(k, n, den) ==
    IF k = 0 THEN [q |-> 0, r |-> 0]
    ELSE LET p  == MulDiv(k - 1, n, den)
             r2 == p.r + (n % den)
         IN  [q |-> p.q + (n \div den) + (IF r2 >= den THEN 1 ELSE 0), r |-> r2 % den]

\* line 127: (sample_rate as f64 * length) as usize.  The cast truncates,
\* and saturates: NaN and negative values give 0; +infinity gives
\* usize::MAX, returned here as -1 (the allocation of line 128 then panics)
sample_count(sample_rate, length, resolution) ==
    LET den == resolution * 1000000
        num == IF den < 0 THEN 0 - length.n ELSE length.n
        pos == IF den < 0 THEN 0 - den ELSE den
    IN  IF length.k = "pinf" THEN -1
        ELSE IF length.k # "fin" THEN 0
        ELSE IF num <= 0 THEN 0
        ELSE MulDiv(sample_rate, num, pos).q

(***************************************************************************)
(* MidiFile::track_addr                                                    *)
(***************************************************************************)
Addr(start, size) == [start |-> start, size |-> size]

\* lines 293-308: n chunks are left to index; the result is [err, addrs]
RECURSIVE TrackAddrFrom(_, _, _, _, _)
\* the loop without `size += 8` (line 304)
TrackAddrFromBody(data, r, index, n, result) ==
    LET cc == read_four_cc(data, r)
        sz == read_i32_big_endian(data, cc)
        d  == Discard(sz, sz.val)
    IN  IF n <= 0 THEN [err |-> "", addrs |-> result]
        ELSE IF ~cc.ok THEN [err |-> "Io", addrs |-> <<>>]
        ELSE IF cc.val # MTrk THEN [err |-> "InvalidChunkType", addrs |-> <<>>]
        ELSE IF ~sz.ok \/ ~d.ok THEN [err |-> "Io", addrs |-> <<>>]
        ELSE TrackAddrFrom(data, d, index + sz.val, n - 1,
                           Append(result, Addr(index, sz.val)))

TrackAddrFrom(data, r, index, n, result) ==
    LET cc == read_four_cc(data, r)
        sz == read_i32_big_endian(data, cc)
        d  == Discard(sz, sz.val)
    IN  IF n <= 0 THEN [err |-> "", addrs |-> result]
        ELSE IF ~cc.ok THEN [err |-> "Io", addrs |-> <<>>]
        ELSE IF cc.val # MTrk THEN [err |-> "InvalidChunkType", addrs |-> <<>>]
        ELSE IF ~sz.ok \/ ~d.ok THEN [err |-> "Io", addrs |-> <<>>]
        ELSE TrackAddrFrom(data, d, index + sz.val + 8, n - 1,
                           Append(result, Addr(index, sz.val + 8)))

track_addr(data, track_count) ==
    TrackAddrFrom(data, Rd(TRUE, 0, 0, 0), 0, track_count, <<>>)

(***************************************************************************)
(* Sorting by tick.  par_sort_by (rayon) is a stable sort.                 *)
(***************************************************************************)
\* e goes before the first element with a tick >= its own: equal ticks end
\* up in reverse order
RECURSIVE InsertBeforeEqual(_, _)
InsertBeforeEqual(sorted, e) ==
    IF sorted = <<>> THEN <<e>>
    ELSE IF Head(sorted).tick >= e.tick THEN <<e>> \o sorted
    ELSE <<Head(sorted)>> \o InsertBeforeEqual(Tail(sorted), e)

\* e goes after every element with a tick <= its own
RECURSIVE InsertByTick(_, _)
InsertByTick(sorted, e) ==
    IF sorted = <<>> THEN <<e>>
    ELSE IF Head(sorted).tick > e.tick THEN <<e>> \o sorted
    ELSE <<Head(sorted)>> \o InsertByTick(Tail(sorted), e)

RECURSIVE SortFrom(_, _)
SortFrom(sorted, rest) ==
    IF rest = <<>> THEN sorted
    ELSE SortFrom(InsertByTick(sorted, Head(rest)), Tail(rest))

par_sort_by_tick(track) == SortFrom(<<>>, track)

HasTempo(track) ==
    \E i \in 1..Len(track) : get_message_type(track[i].msg) = TEMPO_CHANGE

(***************************************************************************)
(* ThreadedRender::new.  The file is its header fields and the bytes that  *)
(* follow the 14 header bytes.                                             *)
(***************************************************************************)
AsI16(u) == IF u >= 32768 THEN u - 65536 ELSE u

\* lines 63-72: read_track on the one reader until it fails or a track
\* with a TEMPO_CHANGE is read; k counts the calls
RECURSIVE TempoScan(_, _, _, _)
\* the loop without the test of lines 65-68: the first track read is kept
ScannedFirstRead(data, st, k, checks) ==
    IF st.pc = "panic" THEN [found |-> FALSE, panic |-> TRUE, track |-> <<>>, idx |-> 0]
    ELSE IF st.pc = "err"
        THEN [found |-> FALSE, panic |-> FALSE, track |-> <<>>, idx |-> 0]
    ELSE [found |-> TRUE, panic |-> FALSE, track |-> st.events, idx |-> k]

\* st is what the k-th call of read_track returned
Scanned(data, st, k, checks) ==
    IF st.pc = "panic" THEN [found |-> FALSE, panic |-> TRUE, track |-> <<>>, idx |-> 0]
    ELSE IF st.pc = "err"
        THEN [found |-> FALSE, panic |-> FALSE, track |-> <<>>, idx |-> 0]
    ELSE IF HasTempo(st.events)
        THEN [found |-> TRUE, panic |-> FALSE, track |-> st.events, idx |-> k]
    ELSE TempoScan(data, st.pos, k + 1, checks)

TempoScan(data, pos, k, checks) ==
    Scanned(data, read_track(data, pos, LoopPoint(0), checks), k, checks)

NoRenderer ==
    [state |-> "none", err |-> "", resolution |-> 0, tempo_map |-> <<>>,
     tempo_idx |-> 0, track_addr |-> <<>>, track_count |-> 0]

RenderErr(e) == [NoRenderer EXCEPT !.state = "err", !.err = e]

\* lines 37-93; tempo_idx is not a field of the source: it records which
\* call of read_track gave the tempo map
\* lines 77-92: addr is what track_addr returned
NewAddressed(in, scan, addr) ==
    IF addr.err # "" THEN RenderErr(addr.err)
    ELSE [state |-> "ok", err |-> "", resolution |-> AsI16(in.division),
          tempo_map |-> scan.track, tempo_idx |-> scan.idx,
          track_addr |-> addr.addrs, track_count |-> in.ntrks]

\* lines 73-81: scan is the outcome of the loop of lines 63-72
NewScanned(in, scan) ==
    IF scan.panic THEN [NoRenderer EXCEPT !.state = "panic"]
    ELSE IF ~scan.found THEN RenderErr("UnsupportedFormat")
    ELSE NewAddressed(in, scan, track_addr(in.data, in.ntrks))

threaded_render_new(in) ==
    IF in.tag # "MThd" THEN RenderErr("InvalidChunkType")
    ELSE IF in.size # 6 THEN RenderErr("InvalidChunkData")
    ELSE IF ~(in.format = 0 \/ in.format = 1) THEN RenderErr("UnsupportedFormat")
    ELSE NewScanned(in, TempoScan(in.data, 0, 1, in.checks))

(***************************************************************************)
(* Inputs: byte streams built from MTrk chunks                             *)
(***************************************************************************)
\* the longest run of running-status events in a parsed payload
MaxRun == 3
\* the number of events of delta 0x0FFFFFFF in the long payload
MaxBigDeltas == 9

BE32(n) == <<(n \div 16777216) % 256, (n \div 65536) % 256, (n \div 256) % 256, n % 256>>

\* a chunk with a declared size
ChunkOf(body, size) == MTrk \o BE32(size) \o body
Chunk(body) == ChunkOf(body, Len(body))

RECURSIVE Repeat(_, _)
Repeat(s, k) == IF k <= 0 THEN <<>> ELSE s \o Repeat(s, k - 1)

\* delta (one or two bytes) and event bytes
VL(n) == IF n < 128 THEN <<n>> ELSE <<128 + (n \div 128), n % 128>>
EotAt(delta) == VL(delta) \o <<255, 47, 0>>
TempoAt(delta, uspq) ==
    VL(delta) \o <<255, 81, 3, (uspq \div 65536) % 256, (uspq \div 256) % 256, uspq % 256>>
NoteOnAt(delta, ch, key, vel) == VL(delta) \o <<144 + ch, key, vel>>
NoteOffAt(delta, ch, key, vel) == VL(delta) \o <<128 + ch, key, vel>>

\* scenario S3 of the specification: 00 90 3C 7F 10 40 7F 10 80 3C 00
PayloadS3 == <<0, 144, 60, 127, 16, 64, 127, 16, 128, 60, 0>> \o EotAt(0)

\* a note-on on channel 1 followed by k running-status note-ons
PayloadRun(k) == <<0, 145, 60, 64>> \o Repeat(<<16, 64, 64>>, k) \o EotAt(0)
\* a program change on channel 5 followed by k running-status ones
PayloadProg(k) == <<0, 197, 7>> \o Repeat(<<1, 8>>, k) \o EotAt(0)
\* a channel pressure, then k running-status ones, then a note-on
PayloadPressure(k) == <<0, 210, 9>> \o Repeat(<<2, 10>>, k) \o NoteOnAt(0, 2, 60, 1) \o EotAt(0)
\* control change 111 and 110, 116, 117 under running status
PayloadCC == <<0, 176, 111, 0, 0, 110, 1, 0, 116, 2, 0, 117, 3, 0, 7, 100>> \o EotAt(0)
\* the loop controllers on channel 3, then as note numbers under running
\* status, as polyphonic pressure and as pitch bend
PayloadCC3 ==
    <<0, 179, 111, 5, 0, 179, 110, 6, 0, 179, 112, 7, 0, 147, 111, 7, 0, 116, 8,
      0, 117, 9, 0, 163, 110, 1, 0, 227, 111, 2>> \o EotAt(0)
\* k events 0x0FFFFFFF ticks apart
PayloadBig(k) ==
    <<255, 255, 255, 127, 144, 60, 127>> \o Repeat(<<255, 255, 255, 127, 60, 127>>, k - 1)
        \o EotAt(0)

ParsePayloads ==
    { PayloadS3, PayloadCC, PayloadCC3,
      TempoAt(0, 500000) \o EotAt(480),
      \* SysEx and a text meta event, then running status against them
      <<0, 240, 2, 1, 247, 0, 60, 64>> \o EotAt(0),
      <<0, 255, 1, 2, 65, 66, 0, 60, 64, 0, 61, 65>> \o EotAt(0),
      \* a data byte before any status byte
      <<0, 60, 64>> \o EotAt(5),
      \* a first byte 0xF1
      <<0, 241, 1, 2>> \o EotAt(0),
      \* events after the end of track
      EotAt(0) \o NoteOnAt(0, 0, 60, 1) \o EotAt(3),
      \* no end of track; a set-tempo of length 2
      NoteOnAt(0, 0, 60, 1),
      <<0, 255, 81, 2, 7, 161>> \o EotAt(0),
      PayloadBig(MaxBigDeltas) }
    \cup { PayloadRun(k) : k \in 0..MaxRun }
    \cup { PayloadProg(k) : k \in 1..MaxRun }
    \cup { PayloadPressure(k) : k \in 1..MaxRun }

LoopTypes ==
    { LoopPoint(0), LoopKind("RpgMaker"), LoopKind("IncredibleMachine"),
      LoopKind("FinalFantasy"), LoopKind("None") }

\* the streams read_track is stepped on: one chunk, or a chunk with a
\* wrong tag, or a chunk followed by another
ParseStreams ==
    { Chunk(b) : b \in ParsePayloads }
    \cup { <<77, 84, 104, 100>> \o BE32(4) \o EotAt(0) }
    \cup { Chunk(EotAt(0)) \o Chunk(EotAt(1)), <<77, 84>> }
    \* a declared size larger, and smaller, than the bytes up to the end of track
    \cup { ChunkOf(EotAt(0) \o NoteOnAt(0, 0, 60, 1), 9) \o Chunk(EotAt(1)),
           ChunkOf(NoteOnAt(0, 0, 60, 1) \o EotAt(0), 4) \o Chunk(EotAt(1)) }

(***************************************************************************)
(* Inputs: files for ThreadedRender                                        *)
(***************************************************************************)
\* the most MTrk chunks in a file
MaxTracks == 2
\* SynthesizerSettings::sample_rate, in samples per second
SampleRate == 3
\* the most calls of render on one ThreadedRender
MaxRenders == 2

\* 120 BPM, end of track at tick 480 (scenario S2 of the specification)
TrackTempo == TempoAt(0, 500000) \o EotAt(480)
\* 120 BPM, 60 BPM from tick 480, a note-on at tick 960 (scenario S4)
TrackTempo2 ==
    TempoAt(0, 500000) \o TempoAt(480, 1000000) \o NoteOnAt(480, 0, 60, 100) \o EotAt(0)
\* note-on at tick 0, note-off at tick 480 (scenario S2)
TrackNote == NoteOnAt(0, 0, 60, 127) \o NoteOffAt(480, 0, 60, 0) \o EotAt(0)
TrackEmpty == EotAt(0)
\* a set-tempo meta event of length 2
TrackBadTempo == <<0, 255, 81, 2, 7, 161>> \o EotAt(0)

TrackBodies == {TrackTempo, TrackTempo2, TrackNote, TrackBadTempo}

RECURSIVE Chunks(_)
Chunks(bodies) == IF bodies = <<>> THEN <<>> ELSE Chunk(Head(bodies)) \o Chunks(Tail(bodies))

TrackLists == UNION { [1..n -> TrackBodies] : n \in 1..MaxTracks }

\* a chunk whose tag is MTrx
ChunkBadTag(body) == <<77, 84, 114, 120>> \o BE32(Len(body)) \o body

\* the division field: 480 ticks per quarter note, 0, and -480 (0xFE20)
Divisions == {480, 0, 65056}

FileOf(format, ntrks, division, bodies) ==
    [tag |-> "MThd", size |-> 6, format |-> format, ntrks |-> ntrks,
     division |-> division, data |-> Chunks(bodies),
     sample_rate |-> SampleRate, checks |-> FALSE]

\* format-1 files of every track list at 480 ticks per quarter note; the
\* other divisions, formats 0 and 2, a track count that differs from the
\* number of chunks, an empty track, a wrong chunk tag, a wrong header tag
\* and size
Files ==
    { FileOf(1, Len(b), 480, b) : b \in TrackLists }
    \cup { FileOf(1, 1, d, <<b>>) : b \in {TrackTempo, TrackTempo2}, d \in Divisions }
    \cup { FileOf(1, 2, d, <<TrackTempo, TrackNote>>) : d \in Divisions }
    \cup { FileOf(f, 1, 480, <<TrackTempo2>>) : f \in {0, 2} }
    \cup { FileOf(1, n, 480, <<TrackTempo, TrackNote>>) : n \in {0, 1, 3} }
    \cup { FileOf(1, 2, 480, <<TrackEmpty, TrackTempo>>),
           FileOf(1, 2, 480, <<TrackTempo2, TrackEmpty>>),
           [FileOf(1, 2, 480, <<TrackTempo>>) EXCEPT
               !.data = Chunk(TrackTempo) \o ChunkBadTag(TrackNote)],
           [FileOf(1, 1, 480, <<TrackTempo>>) EXCEPT !.tag = "RIFF"],
           [FileOf(1, 1, 480, <<TrackTempo>>) EXCEPT !.size = 7] }

(***************************************************************************)
(* State                                                                   *)
(***************************************************************************)
VARIABLES
    input,      \* the file or bytes, the settings and the build: fixed by Init
    rt,         \* the call of read_track being stepped (SpecParse)
    timed,      \* cast_delta and get_length applied to a track (SpecCast)
    midi,       \* the call of MidiFile::new_with_loop_type (SpecLoad)
    renderer,   \* the ThreadedRender, or the error of its constructor
    call,       \* render: [state, n]: idle, running, returned or panicked
    task,       \* the per-track closures of the running render
    master_left, master_right,  \* the Vec<f32> inside the two mutexes
    lock_left, lock_right,      \* the task holding each mutex, or 0
    rendered_track_count,       \* the AtomicI32
    obs         \* the polling thread of main: [pc, progress]

vars == <<input, rt, timed, midi, renderer, call, task, master_left, master_right,
          lock_left, lock_right, rendered_track_count, obs>>

render_vars == <<renderer, call, task, master_left, master_right,
                 lock_left, lock_right, rendered_track_count, obs>>

RtIdle == [pc |-> "start", err |-> "", pos |-> 0, count |-> 0, size |-> 0,
           tick |-> 0, last_status |-> 0, events |-> <<>>]

NoTimed ==
    [pc |-> "start", casted |-> [messages |-> <<>>, times |-> <<>>],
     length |-> Fin(0), got |-> Fin(0)]
NoMidi ==
    [pc |-> "start", err |-> "", resolution |-> 0, track_addrs |-> <<>>,
     parsed |-> <<>>, tempo_track |-> <<>>, pending |-> {}, tracks |-> <<>>,
     timed |-> <<>>, length |-> Fin(0)]
NoCall == [state |-> "idle", n |-> 0]
ObsStart == [pc |-> "poll", progress |-> 0]

InitRender ==
    /\ renderer = NoRenderer
    /\ call = NoCall
    /\ task = <<>>
    /\ master_left = <<>> /\ master_right = <<>>
    /\ lock_left = 0 /\ lock_right = 0
    /\ rendered_track_count = 0
    /\ obs = ObsStart

(***************************************************************************)
(* SpecParse: read_track, one loop iteration per step                      *)
(***************************************************************************)
InitParse ==
    /\ input \in [data : ParseStreams, loop_type : LoopTypes, checks : BOOLEAN]
    /\ rt = RtIdle
    /\ timed = NoTimed /\ midi = NoMidi
    /\ InitRender

ReadTrackBegin ==
    /\ rt.pc = "start"
    /\ rt' = read_track_begin(input.data, 0)
    /\ UNCHANGED <<input, timed, midi, render_vars>>

ReadEvent ==
    /\ rt.pc = "loop"
    /\ rt' = read_track_step(input.data, rt, input.loop_type, input.checks)
    /\ UNCHANGED <<input, timed, midi, render_vars>>

NextParse == ReadTrackBegin \/ ReadEvent

SpecParse == InitParse /\ [][NextParse]_vars

(***************************************************************************)
(* Properties of read_track                                                *)
(***************************************************************************)
IsType(e, ty) == get_message_type(e.msg) = ty

TicksNonDecreasing(T) == \A i \in 1..(Len(T) - 1) : T[i].tick <= T[i + 1].tick

\* C1: whenever read_track returns Ok, the event list is not empty, holds
\* exactly one END_OF_TRACK, which is its last element, and its ticks never
\* decrease.
C1_RawTrackWellFormed ==
    rt.pc = "ok" =>
        /\ Len(rt.events) > 0
        /\ Cardinality({i \in 1..Len(rt.events) : IsType(rt.events[i], END_OF_TRACK)}) = 1
        /\ IsType(rt.events[Len(rt.events)], END_OF_TRACK)
        /\ TicksNonDecreasing(rt.events)

\* the reader after the delta and after the first byte of the next event
NextDelta == read_i32_variable_length(input.data, Rd(TRUE, 0, rt.pos, rt.count))
NextFirst == read_u8(input.data, NextDelta)

\* a loop iteration that takes the running-status branch and emits
RunningStatusStep ==
    /\ rt.pc = "loop" /\ rt'.pc = "loop"
    /\ NextDelta.ok /\ NextFirst.ok /\ NextFirst.val < 128

LastEvent(st) == st.events[Len(st.events)]

NoteOn(ch, key, vel) == Msg(ch, 144, key, vel)
NoteOff(ch, key, vel) == Msg(ch, 128, key, vel)

\* C2: an event whose first byte has the high bit clear is decoded against
\* last_status: it takes one data byte when the command nibble of last_status
\* is 0xC0 or 0xD0 and two otherwise, leaves last_status as it was, and so
\* every event of a run of running-status events has the channel and the
\* command of the status byte before the run; the payload
\* 00 90 3C 7F 10 40 7F 10 80 3C 00 gives note-on(3C,7F), note-on(40,7F),
\* note-off(3C,00).
C2_RunningStatus ==
    /\ [][RunningStatusStep =>
            LET status == rt.last_status
                one    == (status - (status % 16)) \in {192, 208}
                m      == LastEvent(rt').msg
            IN  /\ rt'.last_status = status
                /\ rt'.pos = NextFirst.pos + (IF one THEN 0 ELSE 1)
                /\ Len(rt'.events) = Len(rt.events) + 1
                /\ get_message_type(m) = NORMAL =>
                      /\ m.channel = status % 16
                      /\ m.command = status - (status % 16)
                      /\ m.data1 = NextFirst.val
                      /\ one => m.data2 = 0]_vars
    /\ [](rt.pc = "ok" =>
            /\ input.data = Chunk(PayloadS3) =>
                  rt.events = << Ev(NoteOn(0, 60, 127), 0), Ev(NoteOn(0, 64, 127), 16),
                                 Ev(NoteOff(0, 60, 0), 32), Ev(end_of_track, 32) >>
            /\ \A k \in 0..MaxRun :
                  input.data = Chunk(PayloadRun(k)) =>
                      /\ Len(rt.events) = k + 2
                      /\ rt.events[1] = Ev(NoteOn(1, 60, 64), 0)
                      /\ \A i \in 2..(k + 1) :
                            rt.events[i] = Ev(NoteOn(1, 64, 64), 16 * (i - 1))
            /\ \A k \in 1..MaxRun :
                  input.data = Chunk(PayloadProg(k)) =>
                      /\ Len(rt.events) = k + 2
                      /\ \A i \in 2..(k + 1) :
                            rt.events[i] = Ev(Msg(5, 192, 8, 0), i - 1))

\* a run of MaxRun running-status events has been decoded to the end
C2_Witness ==
    /\ rt.pc = "ok"
    /\ input.data = Chunk(PayloadRun(MaxRun))
    /\ Len(rt.events) = MaxRun + 2

(***************************************************************************)
(* Spec: ThreadedRender::new, then render, one closure per track           *)
(***************************************************************************)
Init ==
    /\ input \in Files
    /\ rt = RtIdle
    /\ timed = NoTimed /\ midi = NoMidi
    /\ InitRender

New ==
    /\ renderer.state = "none"
    /\ renderer' = threaded_render_new(input)
    /\ UNCHANGED <<input, rt, timed, midi, call, task, master_left, master_right,
                   lock_left, lock_right, rendered_track_count, obs>>

TaskStart ==
    [pc |-> "start", track |-> <<>>, fused |-> <<>>,
     casted |-> [messages |-> <<>>, times |-> <<>>], left |-> <<>>, right |-> <<>>]

\* lines 95-103: render is entered; the counter is left as it is
RenderCall ==
    /\ renderer.state = "ok"
    /\ call.state \in {"idle", "returned"}
    /\ call.n < MaxRenders
    /\ call' = [state |-> "running", n |-> call.n + 1]
    /\ task' = [t \in 1..Len(renderer.track_addr) |-> TaskStart]
    /\ master_left' = <<>> /\ master_right' = <<>>
    /\ lock_left' = 0 /\ lock_right' = 0
    /\ UNCHANGED <<input, rt, timed, midi, renderer, rendered_track_count, obs>>

Running(t, pc) ==
    /\ call.state = "running"
    /\ t \in DOMAIN task
    /\ task[t].pc = pc

TaskUnchanged ==
    UNCHANGED <<input, rt, timed, midi, renderer, call, master_left, master_right,
                lock_left, lock_right, rendered_track_count, obs>>

\* line 116: track.extend(self.tempo_map.iter())
Extend(track, tempo_map) == track \o tempo_map

\* MidiTrack::get_length: *self.times.last().unwrap()
get_length(track) == track.times[Len(track.times)]

RECURSIVE Pow10(_)
Pow10(n) == IF n <= 0 THEN 1 ELSE 10 * Pow10(n - 1)

\* what sequencer.render writes for track t: the synthesizer is outside the
\* model, each track is given a level of its own
Pcm(t, n, sign) == [i \in 1..n |-> sign * Pow10(t - 1)]

\* line 115: read_track(..).unwrap() on the bytes of the chunk
TaskParsed(tk, st) ==
    IF st.pc # "ok" THEN [tk EXCEPT !.pc = "panic"]
    ELSE [tk EXCEPT !.pc = "fuse", !.track = st.events]

\* lines 104-115: read_exact(..).unwrap() of the chunk, then read_track
TaskRead(in, tk, a) ==
    IF a.start + a.size > Len(in.data) THEN [tk EXCEPT !.pc = "panic"]
    ELSE TaskParsed(tk, read_track(SubSeq(in.data, a.start + 1, a.start + a.size),
                                   0, LoopPoint(0), in.checks))

\* line 119: the TimedTrack of the fused track
TaskCasted(tk, fused, casted) ==
    IF casted.panic THEN [tk EXCEPT !.pc = "panic", !.fused = fused]
    ELSE [tk EXCEPT !.pc = "synth", !.fused = fused,
                    !.casted = [messages |-> casted.messages, times |-> casted.times]]

TaskSorted(in, r, tk, fused) ==
    TaskCasted(tk, fused, cast_delta(fused, r.resolution, in.checks))

\* lines 116-119: extend, sort, cast_delta
TaskFuse(in, r, tk) ==
    IF tk.pc = "panic" THEN tk
    ELSE TaskSorted(in, r, tk, par_sort_by_tick(Extend(tk.track, r.tempo_map)))

\* lines 128-131: the two buffers of n samples, and the synthesis
TaskBuffers(tk, t, n) ==
    IF n < 0 THEN [tk EXCEPT !.pc = "panic"]
    ELSE [tk EXCEPT !.pc = "lockL", !.left = Pcm(t, n, 1), !.right = Pcm(t, n, -1)]

\* lines 121-131: the length, the sample count, the buffers
TaskSynth(in, r, tk, t) ==
    IF tk.pc = "panic" \/ tk.casted.times = <<>> THEN [tk EXCEPT !.pc = "panic"]
    ELSE TaskBuffers(tk, t, sample_count(in.sample_rate, get_length(tk.casted),
                                         r.resolution))

\* lines 104-131: what the closure of track t computes on its own data, up
\* to the first lock; it depends on the file and the renderer only
closure_local(in, r, t) ==
    TaskSynth(in, r, TaskFuse(in, r, TaskRead(in, TaskStart, r.track_addr[t])), t)

ClosuresOf(in, r) ==
    {[input |-> in, renderer |-> r, t |-> t, task |-> closure_local(in, r, t)] :
        t \in 1..Len(r.track_addr)}

\* closure_local, tabulated over the files and their renderers
ClosureTable ==
    UNION {ClosuresOf(row.input, row.renderer) :
              row \in {[input |-> in, renderer |-> threaded_render_new(in)] : in \in Files}}

\* lines 104-131 as one step of closure t; an unwrap that fails ends it
TaskPrepare(t) ==
    /\ Running(t, "start")
    /\ \E row \in ClosureTable :
          /\ row.input = input /\ row.renderer = renderer /\ row.t = t
          /\ task' = [task EXCEPT ![t] = row.task]
    /\ TaskUnchanged

\* Vec::resize(len, 0.0)
Resize(v, len) == [i \in 1..len |-> IF i <= Len(v) THEN v[i] ELSE 0]

\* ArrayMath::sum(src, dst): dst[i] += src[i] over src
ArraySum(src, dst) == [i \in 1..Len(dst) |-> IF i <= Len(src) THEN dst[i] + src[i] ELSE dst[i]]

\* the block with the length test left out
MixAlwaysResize(buf, master) == ArraySum(buf, Resize(master, Len(buf)))

\* lines 135-139 and 144-148: grow the master buffer if it is shorter, add
Mix(buf, master) ==
    ArraySum(buf, IF Len(master) < Len(buf) THEN Resize(master, Len(buf)) ELSE master)

\* line 134: master_left.lock()
AcquireLeft(t) ==
    /\ Running(t, "lockL")
    /\ lock_left = 0
    /\ lock_left' = t
    /\ task' = [task EXCEPT ![t].pc = "mixL"]
    /\ UNCHANGED <<input, rt, timed, midi, renderer, call, master_left, master_right,
                   lock_right, rendered_track_count, obs>>

\* lines 135-139
MixLeft(t) ==
    /\ Running(t, "mixL")
    /\ master_left' = Mix(task[t].left, master_left)
    /\ task' = [task EXCEPT ![t].pc = "unlockL"]
    /\ UNCHANGED <<input, rt, timed, midi, renderer, call, master_right,
                   lock_left, lock_right, rendered_track_count, obs>>

\* the closure goes on to the right buffer with the left guard still held
ReleaseLeftKeepsLock(t) ==
    /\ Running(t, "unlockL")
    /\ task' = [task EXCEPT ![t].pc = "lockR"]
    /\ UNCHANGED <<input, rt, timed, midi, renderer, call, master_left, master_right,
                   lock_left, lock_right, rendered_track_count, obs>>

\* line 140: the guard is dropped
ReleaseLeft(t) ==
    /\ Running(t, "unlockL")
    /\ lock_left' = 0
    /\ task' = [task EXCEPT ![t].pc = "lockR"]
    /\ UNCHANGED <<input, rt, timed, midi, renderer, call, master_left, master_right,
                   lock_right, rendered_track_count, obs>>

\* line 143: master_right.lock()
AcquireRight(t) ==
    /\ Running(t, "lockR")
    /\ lock_right = 0
    /\ lock_right' = t
    /\ task' = [task EXCEPT ![t].pc = "mixR"]
    /\ UNCHANGED <<input, rt, timed, midi, renderer, call, master_left, master_right,
                   lock_left, rendered_track_count, obs>>

\* lines 144-148
MixRight(t) ==
    /\ Running(t, "mixR")
    /\ master_right' = Mix(task[t].right, master_right)
    /\ task' = [task EXCEPT ![t].pc = "unlockR"]
    /\ UNCHANGED <<input, rt, timed, midi, renderer, call, master_left,
                   lock_left, lock_right, rendered_track_count, obs>>

\* line 149: the guard is dropped
ReleaseRight(t) ==
    /\ Running(t, "unlockR")
    /\ lock_right' = 0
    /\ task' = [task EXCEPT ![t].pc = "count"]
    /\ UNCHANGED <<input, rt, timed, midi, renderer, call, master_left, master_right,
                   lock_left, rendered_track_count, obs>>

\* line 151: fetch_add(1, SeqCst)
Increment(t) ==
    /\ Running(t, "count")
    /\ rendered_track_count' = rendered_track_count + 1
    /\ task' = [task EXCEPT ![t].pc = "done"]
    /\ UNCHANGED <<input, rt, timed, midi, renderer, call, master_left, master_right,
                   lock_left, lock_right, obs>>

AllTasks(pcs) == \A t \in DOMAIN task : task[t].pc \in pcs

\* lines 154-157: every closure has returned
RenderReturn ==
    /\ call.state = "running"
    /\ AllTasks({"done"})
    /\ call' = [call EXCEPT !.state = "returned"]
    /\ UNCHANGED <<input, rt, timed, midi, renderer, task, master_left, master_right,
                   lock_left, lock_right, rendered_track_count, obs>>

\* an unwrap of lines 105-122 failed in some closure: for_each resumes the
\* panic once the other closures have ended
RenderPanic ==
    /\ call.state = "running"
    /\ AllTasks({"done", "panic"})
    /\ ~AllTasks({"done"})
    /\ call' = [call EXCEPT !.state = "panicked"]
    /\ UNCHANGED <<input, rt, timed, midi, renderer, task, master_left, master_right,
                   lock_left, lock_right, rendered_track_count, obs>>

\* main.rs lines 31-36: one round of the polling loop
Observe ==
    /\ renderer.state = "ok"
    /\ obs.pc = "poll"
    /\ obs.progress < renderer.track_count
    /\ obs' = [obs EXCEPT !.progress = rendered_track_count]
    /\ UNCHANGED <<input, rt, timed, midi, renderer, call, task, master_left, master_right,
                   lock_left, lock_right, rendered_track_count>>

\* main.rs lines 31 and 38: the loop condition fails
ObserveEnd ==
    /\ renderer.state = "ok"
    /\ obs.pc = "poll"
    /\ ~(obs.progress < renderer.track_count)
    /\ obs' = [obs EXCEPT !.pc = "finished"]
    /\ UNCHANGED <<input, rt, timed, midi, renderer, call, task, master_left, master_right,
                   lock_left, lock_right, rendered_track_count>>

TaskStep(t) ==
    \/ TaskPrepare(t)
    \/ AcquireLeft(t) \/ MixLeft(t) \/ ReleaseLeft(t)
    \/ AcquireRight(t) \/ MixRight(t) \/ ReleaseRight(t)
    \/ Increment(t)

Next ==
    \/ New
    \/ RenderCall
    \/ \E t \in 1..MaxTracks + 1 : TaskStep(t)
    \/ RenderReturn
    \/ RenderPanic
    \/ Observe
    \/ ObserveEnd

Spec == Init /\ [][Next]_vars

\* every closure keeps taking steps, and render returns once they have ended
FairSpec ==
    /\ Spec
    /\ \A t \in 1..MaxTracks + 1 : WF_vars(TaskStep(t))
    /\ WF_vars(RenderReturn)
    /\ WF_vars(RenderPanic)

(***************************************************************************)
(* Properties of render                                                    *)
(***************************************************************************)
\* the closures that have built their TimedTrack
Casted == {t \in DOMAIN task : task[t].pc \notin {"start", "fuse", "panic"}}

\* the closure of the chunk the tempo map was read from
IsTempoMapTrack(t) == t = renderer.tempo_idx

NonTempo(track) ==
    LET Keep(e) == ~IsType(e, TEMPO_CHANGE) IN SelectSeq(track, Keep)

Messages(track) == [i \in 1..Len(track) |-> track[i].msg]

AtTick(track, v) ==
    LET Keep(e) == e.tick = v IN SelectSeq(track, Keep)

\* C3: every TimedTrack that cast_delta builds from a fused track has as
\* many times as messages, times that never decrease, no TEMPO_CHANGE among
\* its messages, and as messages the non-tempo messages of the fused track
\* in their order.
C3_TimedTrackWellFormed ==
    \A t \in Casted :
        LET tt == task[t].casted
        IN  /\ Len(tt.times) = Len(tt.messages)
            /\ \A i \in 1..(Len(tt.times) - 1) :
                  FLe(tt.times[i], tt.times[i + 1], renderer.resolution)
            /\ \A i \in 1..Len(tt.messages) :
                  get_message_type(tt.messages[i]) # TEMPO_CHANGE
            /\ tt.messages = Messages(NonTempo(task[t].fused))

\* the microseconds per quarter note in force for the interval that ends at
\* event j: those of the last TEMPO_CHANGE before j, or 120 BPM
UspqInForce(track, j) ==
    LET before == {i \in 1..(j - 1) : IsType(track[i], TEMPO_CHANGE)}
        last   == CHOOSE i \in before : \A k \in before : k <= i
    IN  IF before = {} THEN 500000 ELSE Uspq(track[last].msg)

\* the sum over the intervals up to event j of dt_ticks * uspq_in_force
RECURSIVE TimeNumerator(_, _)
TimeNumerator(track, j) ==
    IF j = 0 THEN 0
    ELSE TimeNumerator(track, j - 1)
         + (track[j].tick - (IF j = 1 THEN 0 ELSE track[j - 1].tick))
           * UspqInForce(track, j)

NonTempoIndices(track) ==
    LET Keep(j) == ~IsType(track[j], TEMPO_CHANGE)
    IN  SelectSeq([j \in 1..Len(track) |-> j], Keep)

\* C4: the time of each event is the sum over the tick intervals before it
\* of dt_ticks * uspq_in_force / (resolution * 1000000) seconds, the tempo
\* in force being that of the last TEMPO_CHANGE earlier in the list, or
\* 120 BPM; a TEMPO_CHANGE at tick t does not act on the interval ending at
\* t.  At resolution 480, 120 BPM then 60 BPM from tick 480, the event at
\* tick 960 is at 1.5 s = 720000000 / (480 * 1000000).  (The quotient is not
\* defined at resolution 0.)
C4_CastDeltaTimes ==
    \A t \in Casted :
        renderer.resolution # 0 =>
            LET idx == NonTempoIndices(task[t].fused)
            IN  /\ task[t].casted.times =
                      [k \in 1..Len(idx) |-> Fin(TimeNumerator(task[t].fused, idx[k]))]
                /\ (/\ renderer.resolution = 480
                    /\ \A i \in 1..Len(task[t].fused) :
                          IsType(task[t].fused[i], TEMPO_CHANGE) =>
                              \/ /\ task[t].fused[i].tick = 0
                                 /\ Uspq(task[t].fused[i].msg) = 500000
                              \/ /\ task[t].fused[i].tick = 480
                                 /\ Uspq(task[t].fused[i].msg) = 1000000) =>
                      \A k \in 1..Len(idx) :
                          task[t].fused[idx[k]].tick = 960 =>
                              task[t].casted.times[k] = Fin(720000000)

\* a note at tick 960, after a change to 60 BPM at tick 480, has been timed
C4_Witness ==
    \E t \in Casted :
        /\ renderer.resolution = 480
        /\ \E i \in 1..Len(task[t].fused) :
              /\ IsType(task[t].fused[i], TEMPO_CHANGE)
              /\ task[t].fused[i].tick = 480
              /\ Uspq(task[t].fused[i].msg) = 1000000
        /\ \E k \in 1..Len(task[t].casted.times) :
              /\ task[t].casted.times[k] = Fin(720000000)
              /\ task[t].casted.messages[k].command = 144

Fused == {t \in DOMAIN task : task[t].pc \notin {"start", "panic"}}

\* C5: the list render passes to cast_delta is sorted by tick, holds every
\* TEMPO_CHANGE of the tempo map, and events of equal tick are in their
\* order before the sort: the events of the track in parse order, then the
\* events of the tempo map in their order.
C5_FusedSortedStable ==
    \A t \in Fused :
        LET fused  == task[t].fused
            before == task[t].track \o renderer.tempo_map
        IN  /\ TicksNonDecreasing(fused)
            /\ Len(fused) = Len(before)
            /\ \A i \in 1..Len(before) :
                  AtTick(fused, before[i].tick) = AtTick(before, before[i].tick)
            /\ \A i \in 1..Len(renderer.tempo_map) :
                  IsType(renderer.tempo_map[i], TEMPO_CHANGE) =>
                      \E j \in 1..Len(fused) : fused[j] = renderer.tempo_map[i]

\* an event of the track and a tempo change share tick 0, an event of the
\* track and two events of the tempo map share tick 480
C5_Witness ==
    \E t \in Fused :
        /\ Len(task[t].fused) >= 5
        /\ task[t].fused[1] = Ev(NoteOn(0, 60, 127), 0)
        /\ IsType(task[t].fused[2], TEMPO_CHANGE) /\ task[t].fused[2].tick = 0
        /\ task[t].fused[3] = Ev(NoteOff(0, 60, 0), 480)
        /\ task[t].fused[4] = Ev(end_of_track, 480)
        /\ task[t].fused[5].tick = 480

\* C6: for a track that is not the tempo map, the TimedTrack has one entry
\* for each event the track itself parsed, its channel messages and its one
\* END_OF_TRACK: the tempo map adds TEMPO_CHANGE events only.  A tempo track
\* ending at tick 480 and a track with note-on at 0, note-off at 480 and EOT
\* give the times 0.0, 0.5, 0.5.
C6_OnlyOwnEvents ==
    \A t \in Casted :
        ~IsTempoMapTrack(t) =>
            /\ task[t].casted.messages = Messages(NonTempo(task[t].track))
            /\ Len(task[t].casted.times) = Len(NonTempo(task[t].track))

\* C7: the track that is the tempo map is not extended with the tempo map:
\* the list handed to cast_delta holds each of its events once.
C7_TempoMapTrackNotFused ==
    \A t \in Fused :
        IsTempoMapTrack(t) => task[t].fused = task[t].track

Max(a, b) == IF a >= b THEN a ELSE b

\* max over the tracks 1..n of N_t, the sample count of track t
RECURSIVE MaxSamples(_)
MaxSamples(n) == IF n = 0 THEN 0 ELSE Max(Len(task[n].left), MaxSamples(n - 1))

\* the sum at index i over the tracks 1..n that have a sample there
RECURSIVE SumLeft(_, _)
SumLeft(n, i) ==
    IF n = 0 THEN 0
    ELSE SumLeft(n - 1, i) + (IF i <= Len(task[n].left) THEN task[n].left[i] ELSE 0)

RECURSIVE SumRight(_, _)
SumRight(n, i) ==
    IF n = 0 THEN 0
    ELSE SumRight(n - 1, i) + (IF i <= Len(task[n].right) THEN task[n].right[i] ELSE 0)

\* C8: whatever the interleaving of the closures, when render returns both
\* master buffers have the length of the longest track, and at every index
\* the master value is the sum of the samples of the tracks that reach that
\* index: nothing is lost, added twice, or discarded by a resize.
C8_MasterIsSumOfTracks ==
    call.state = "returned" =>
        /\ Len(master_left) = MaxSamples(Len(task))
        /\ Len(master_right) = MaxSamples(Len(task))
        /\ \A i \in 1..Len(master_left) : master_left[i] = SumLeft(Len(task), i)
        /\ \A i \in 1..Len(master_right) : master_right[i] = SumRight(Len(task), i)

\* render has returned after mixing two tracks of different lengths
C8_Witness ==
    /\ call.state = "returned"
    /\ \E t, u \in DOMAIN task :
          /\ 0 < Len(task[t].left)
          /\ Len(task[t].left) < Len(task[u].left)
          /\ master_left[1] = task[t].left[1] + task[u].left[1]
          /\ master_right[Len(master_right)] = task[u].right[Len(task[u].right)]

\* C9: rendered_track_count is 0 at first, the observer never sees it go
\* down, it never exceeds track_count, and when a call of render has
\* returned it equals track_count.
C9_CounterEndsAtTrackCount ==
    /\ renderer.state = "none" => rendered_track_count = 0
    /\ obs.progress <= rendered_track_count
    /\ renderer.state = "ok" =>
          /\ rendered_track_count <= renderer.track_count
          /\ call.state = "returned" => rendered_track_count = renderer.track_count

Holds(t) == {l \in {"left", "right"} :
                \/ l = "left" /\ lock_left = t
                \/ l = "right" /\ lock_right = t}

WaitsLeft(t) == t \in DOMAIN task /\ call.state = "running" /\ task[t].pc = "lockL"
WaitsRight(t) == t \in DOMAIN task /\ call.state = "running" /\ task[t].pc = "lockR"
HasLeft(t) == t \in DOMAIN task /\ lock_left = t /\ task[t].pc = "mixL"
HasRight(t) == t \in DOMAIN task /\ lock_right = t /\ task[t].pc = "mixR"

\* C10: with closures that keep being scheduled, every call of render ends;
\* a closure that asks for a master lock gets it; no closure asks for one
\* master lock while it holds the other; and while render runs some step of
\* it can always be taken.
C10_RenderTerminates ==
    /\ [](\A t \in 1..MaxTracks + 1 :
             /\ WaitsLeft(t) => Holds(t) = {}
             /\ WaitsRight(t) => Holds(t) = {})
    /\ [](call.state = "running" =>
             ENABLED ((\E t \in 1..MaxTracks + 1 : TaskStep(t)) \/ RenderReturn \/ RenderPanic))
    /\ \A t \in 1..MaxTracks + 1 :
          /\ WaitsLeft(t) ~> HasLeft(t)
          /\ WaitsRight(t) ~> HasRight(t)
    /\ (call.state = "running") ~> (call.state \in {"returned", "panicked"})

\* a closure waits for the left master lock while another closure holds it
C10_Witness ==
    \E t, u \in DOMAIN task :
        /\ t # u
        /\ WaitsLeft(t)
        /\ HasLeft(u)

(***************************************************************************)
(* Properties of read_track and of the constructor                         *)
(***************************************************************************)
\* C11: when read_track returns Ok, END_OF_TRACK is the last event emitted,
\* the reader has consumed no more than the declared size, and it is left
\* 8 + size bytes past the start of the MTrk tag, on the tag of the next
\* chunk.
C11_ReaderLeftAtChunkEnd ==
    rt.pc = "ok" =>
        /\ IsType(rt.events[Len(rt.events)], END_OF_TRACK)
        /\ \A i \in 1..(Len(rt.events) - 1) : ~IsType(rt.events[i], END_OF_TRACK)
        /\ rt.count <= rt.size
        /\ rt.pos = 8 + rt.size

\* the dialects that rewrite a control change: <<dialect, controller, message>>
LoopControllers ==
    { <<"RpgMaker", 111, loop_start>>,
      <<"IncredibleMachine", 110, loop_start>>, <<"IncredibleMachine", 111, loop_end>>,
      <<"FinalFantasy", 116, loop_start>>, <<"FinalFantasy", 117, loop_end>> }

Rewritten(status, data1, loop_type) ==
    {row \in LoopControllers :
        status \div 16 = 11 /\ row[1] = loop_type.kind /\ row[2] = data1}

\* what the claim says common2 returns
ExpectedCommon2(status, data1, data2, loop_type) ==
    IF Rewritten(status, data1, loop_type) # {}
    THEN (CHOOSE row \in Rewritten(status, data1, loop_type) : TRUE)[3]
    ELSE Msg(status % 16, 16 * (status \div 16), data1, data2)

\* the status byte the next event is decoded against
NextStatus == IF NextFirst.val < 128 THEN rt.last_status ELSE NextFirst.val

\* a loop iteration that emits a channel message of two data bytes
TwoDataBytesStep ==
    /\ rt.pc = "loop" /\ rt'.pc = "loop"
    /\ NextDelta.ok /\ NextFirst.ok
    /\ NextStatus \notin {240, 247, 255}
    /\ NextStatus \div 16 \notin {12, 13}

\* its two data bytes: the last two bytes the iteration consumed
NextData1 == input.data[rt'.pos - 1]
NextData2 == input.data[rt'.pos]

Controllers == {7, 110, 111, 116, 117}

\* C12: common2 rewrites a message only when its command nibble is 0xB0:
\* RpgMaker CC 111 is LOOP_START; IncredibleMachine CC 110 is LOOP_START
\* and CC 111 LOOP_END; FinalFantasy CC 116 is LOOP_START and CC 117
\* LOOP_END; with LoopPoint and None, and for every other controller or
\* command, the message has channel = status & 0x0F, command = status & 0xF0
\* and the two data bytes as read.  Checked on every two-data-byte event
\* read_track decodes and on every status byte with the loop controllers.
C12_LoopDialects ==
    /\ [][TwoDataBytesStep =>
            LastEvent(rt').msg =
                ExpectedCommon2(NextStatus, NextData1, NextData2, input.loop_type)]_vars
    /\ [](\A status \in 128..239, data1 \in Controllers, lt \in LoopTypes :
             common2(status, data1, 100, lt) = ExpectedCommon2(status, data1, 100, lt))
    /\ [](rt.pc = "ok" /\ input.data = Chunk(PayloadCC) =>
             /\ input.loop_type.kind = "RpgMaker" => rt.events[1].msg = loop_start
             /\ input.loop_type.kind = "None" => rt.events[1].msg = Msg(0, 176, 111, 0))

\* control changes 116 and 117 were read under FinalFantasy, and the note
\* numbers 116 and 117 of the other payload too
C12_Witness ==
    /\ rt.pc = "ok"
    /\ input.loop_type.kind = "FinalFantasy"
    /\ \/ /\ input.data = Chunk(PayloadCC)
          /\ Messages(rt.events) =
                << Msg(0, 176, 111, 0), Msg(0, 176, 110, 1), loop_start, loop_end,
                   Msg(0, 176, 7, 100), end_of_track >>
       \/ /\ input.data = Chunk(PayloadCC3)
          /\ rt.events[5].msg = Msg(3, 144, 116, 8)

\* the chunks of the file in file order, each as read_track parses it, up to
\* the end of the data or the first chunk that does not parse
RECURSIVE TracksFrom(_, _, _)
TracksFrom(data, pos, checks) ==
    IF pos >= Len(data) THEN <<>>
    ELSE LET st == read_track(data, pos, LoopPoint(0), checks)
         IN  IF st.pc = "ok" THEN <<st>> \o TracksFrom(data, st.pos, checks)
             ELSE <<st>>

FileTracks == TracksFrom(input.data, 0, input.checks)

AllParse(tracks) == \A i \in DOMAIN tracks : tracks[i].pc = "ok"

TempoTracks(tracks) ==
    {i \in DOMAIN tracks : tracks[i].pc = "ok" /\ HasTempo(tracks[i].events)}

HeaderAccepted ==
    input.tag = "MThd" /\ input.size = 6 /\ input.format \in {0, 1}

\* the constructor has returned and render has not been called
Constructed == renderer.state # "none" /\ call.state = "idle"

\* C13: ThreadedRender::new designates as tempo map the first track in file
\* order that contains a TEMPO_CHANGE, and returns UnsupportedFormat when no
\* track of the file contains one.
C13_FirstTempoTrack ==
    Constructed =>
        /\ renderer.state = "ok" =>
              /\ renderer.tempo_idx \in TempoTracks(FileTracks)
              /\ \A i \in TempoTracks(FileTracks) : renderer.tempo_idx <= i
              /\ renderer.tempo_map = FileTracks[renderer.tempo_idx].events
        /\ HeaderAccepted /\ AllParse(FileTracks) /\ TempoTracks(FileTracks) = {} =>
              renderer.state = "err" /\ renderer.err = "UnsupportedFormat"

\* the second track of the file is the tempo map
C13_Witness ==
    /\ renderer.state = "ok"
    /\ renderer.tempo_idx = 2
    /\ input.data = Chunks(<<TrackNote, TrackTempo2>>)

\* the errors read_track raises in the constructor: the loop of lines 63-72
\* parses the chunks in file order up to the first one with a tempo change
RaisedInNew ==
    {FileTracks[i].err : i \in
        {j \in DOMAIN FileTracks :
            /\ FileTracks[j].pc = "err"
            /\ \A k \in 1..(j - 1) : ~HasTempo(FileTracks[k].events)}}

\* C14: every error raised while parsing a track during ThreadedRender::new
\* is returned by the constructor with its own kind; a set-tempo meta event
\* whose length is not 3 makes it return InvalidTempoValue.
C14_ParseErrorsReturned ==
    /\ Constructed /\ HeaderAccepted =>
          \A e \in RaisedInNew : renderer.state = "err" /\ renderer.err = e
    /\ Constructed /\ input.data = Chunks(<<TrackBadTempo>>) /\ HeaderAccepted =>
          renderer.state = "err" /\ renderer.err = "InvalidTempoValue"

\* C15: a header whose division is not positive is rejected with an error by
\* the constructor, so cast_delta is never called with resolution <= 0.
C15_DivisionPositive ==
    /\ Constructed /\ AsI16(input.division) <= 0 => renderer.state = "err"
    /\ \A t \in DOMAIN task :
          task[t].pc \notin {"start", "panic"} => renderer.resolution > 0

\* the least N with N >= sample_rate * n / den, for n >= 0 and den > 0
CeilOfProduct(sample_rate, n, den) ==
    MulDiv(sample_rate, n, den).q + (IF MulDiv(sample_rate, n, den).r > 0 THEN 1 ELSE 0)

\* the closure of track t has made its two buffers
HasBuffers(t) == task[t].pc \notin {"start", "panic"}

\* C16: in render the left and right buffers of a track have the same
\* length N = ceil(sample_rate * L), L being the length in seconds of the
\* track's TimedTrack: a fractional product is rounded up, never down.
C16_SampleCountRoundsUp ==
    \A t \in DOMAIN task :
        HasBuffers(t) /\ renderer.resolution > 0 =>
            /\ Len(task[t].left) = Len(task[t].right)
            /\ Len(task[t].left) =
                  CeilOfProduct(input.sample_rate, get_length(task[t].casted).n,
                                renderer.resolution * 1000000)

(***************************************************************************)
(* SpecCast: cast_delta on a track, then MidiTrack::get_length on the      *)
(* TimedTrack it returned                                                  *)
(***************************************************************************)
Parsed(body) == read_track(Chunk(body), 0, LoopPoint(0), FALSE).events

\* the empty track, tracks as read_track returns them, and tracks fused
\* with a tempo map
CastTracks ==
    {<<>>}
    \cup {Parsed(b) : b \in TrackBodies \cup {TrackEmpty, PayloadS3, PayloadRun(MaxRun)}}
    \cup {par_sort_by_tick(Extend(Parsed(b), Parsed(m))) :
             b \in {TrackNote, TrackEmpty}, m \in {TrackTempo, TrackTempo2}}

Resolutions == {480, 96, 1}

InitCast ==
    /\ input \in [track : CastTracks, resolution : Resolutions, checks : BOOLEAN]
    /\ rt = RtIdle
    /\ timed = NoTimed /\ midi = NoMidi
    /\ InitRender

\* cast_delta(track, resolution)
CastDelta ==
    /\ timed.pc = "start"
    /\ LET c == cast_delta(input.track, input.resolution, input.checks)
       IN  timed' = IF c.panic THEN [timed EXCEPT !.pc = "panic"]
                    ELSE [timed EXCEPT !.pc = "casted", !.length = c.length,
                                       !.casted = [messages |-> c.messages,
                                                   times |-> c.times]]
    /\ UNCHANGED <<input, rt, midi, render_vars>>

\* MidiTrack::get_length: last() of an empty Vec is None and unwrap panics
GetLength ==
    /\ timed.pc = "casted"
    /\ timed' = IF timed.casted.times = <<>> THEN [timed EXCEPT !.pc = "panic"]
                ELSE [timed EXCEPT !.pc = "length", !.got = get_length(timed.casted)]
    /\ UNCHANGED <<input, rt, midi, render_vars>>

NextCast == CastDelta \/ GetLength

SpecCast == InitCast /\ [][NextCast]_vars

\* C17: the length of a TimedTrack is its last time stamp, and 0 when it has
\* no entries: MidiTrack::get_length returns 0 and does not fail for an empty
\* track, in agreement with the length cast_delta returns for it.
C17_LengthOfEmptyTrack ==
    /\ timed.pc = "length" =>
          /\ timed.got = timed.length
          /\ timed.got =
                IF timed.casted.times = <<>> THEN Fin(0)
                ELSE timed.casted.times[Len(timed.casted.times)]
    /\ timed.pc = "panic" => input.track # <<>>

(***************************************************************************)
(* Properties of track_addr                                                *)
(***************************************************************************)
\* the n chunks found from pos by following the declared sizes, as far as
\* the data holds their 8-byte headers
RECURSIVE WalkFrom(_, _, _)
WalkFrom(data, pos, n) ==
    IF n <= 0 \/ pos + 8 > Len(data) THEN <<>>
    ELSE LET size == I32BE(SubSeq(data, pos + 5, pos + 8))
         IN  <<[offset |-> pos, tag |-> SubSeq(data, pos + 1, pos + 4), size |-> size]>>
                 \o (IF size < 0 THEN <<>> ELSE WalkFrom(data, pos + 8 + size, n - 1))

Walk == WalkFrom(input.data, 0, input.ntrks)

\* the stream is track_count well-formed MTrk chunks
WellFormedChunks ==
    /\ Len(Walk) = input.ntrks
    /\ \A i \in DOMAIN Walk :
          /\ Walk[i].tag = MTrk
          /\ Walk[i].size >= 0
          /\ Walk[i].offset + 8 + Walk[i].size <= Len(input.data)

\* the constructor has called track_addr (line 80)
TrackAddrCalled == Constructed /\ HeaderAccepted /\ TempoTracks(FileTracks) # {}

\* C18: on track_count well-formed MTrk chunks track_addr returns exactly
\* track_count entries (offset, len) in file order, with len = declared size
\* + 8, the first offset 0 and every next offset = offset + len; it returns
\* InvalidChunkType, and no partial index, as soon as a tag is not MTrk.
C18_TrackIndex ==
    /\ TrackAddrCalled /\ WellFormedChunks =>
          /\ renderer.state = "ok"
          /\ Len(renderer.track_addr) = input.ntrks
          /\ \A i \in DOMAIN renderer.track_addr :
                /\ renderer.track_addr[i].size = Walk[i].size + 8
                /\ renderer.track_addr[i].start =
                      IF i = 1 THEN 0
                      ELSE renderer.track_addr[i - 1].start + renderer.track_addr[i - 1].size
                /\ SubSeq(input.data, renderer.track_addr[i].start + 1,
                          renderer.track_addr[i].start + 4) = MTrk
    /\ TrackAddrCalled /\ (\E i \in DOMAIN Walk : Walk[i].tag # MTrk) =>
          /\ renderer.state = "err" /\ renderer.err = "InvalidChunkType"
          /\ renderer.track_addr = <<>>

\* two chunks were indexed
C18_Witness ==
    /\ renderer.state = "ok"
    /\ input.data = Chunks(<<TrackNote, TrackTempo2>>)
    /\ renderer.track_addr = <<Addr(0, Len(TrackNote) + 8),
                               Addr(Len(TrackNote) + 8, Len(TrackTempo2) + 8)>>

(***************************************************************************)
(* Properties of the progress counter                                      *)
(***************************************************************************)
\* the tracks of the running render whose samples are in both master
\* buffers, with both guards dropped
MixedBoth == {t \in DOMAIN task : task[t].pc \in {"count", "done"}}

\* C19: at every moment of a render, rendered_track_count is at most the
\* number of tracks whose samples have been added to both master buffers:
\* a task increments it once, after it has left both critical sections.
C19_CounterBehindMix ==
    call.state = "running" => rendered_track_count <= Cardinality(MixedBoth)

(***************************************************************************)
(* SpecLoad: MidiFile::new_with_loop_type.  midi.tracks is the local       *)
(* `tracks`; parsed keeps it as it was before the tempo merge, pending is  *)
(* the closures of the for_each of lines 236-241 that have not run.        *)
(***************************************************************************)
MidiErr(e) == [NoMidi EXCEPT !.pc = "err", !.err = e]
MidiPanic(m) == [m EXCEPT !.pc = "panic"]

\* lines 206-210: addr is what track_addr returned
LoadAddressed(in, addr) ==
    IF addr.err # "" THEN MidiErr(addr.err)
    ELSE [NoMidi EXCEPT !.pc = "read", !.resolution = AsI16(in.division),
                        !.track_addrs = addr.addrs]

\* lines 177-210: the header, then track_addr over the rest of the data
LoadHeader ==
    /\ midi.pc = "start"
    /\ midi' =
          IF input.file.tag # "MThd" THEN MidiErr("InvalidChunkType")
          ELSE IF input.file.size # 6 THEN MidiErr("InvalidChunkData")
          ELSE IF input.file.format # 1 THEN MidiErr("UnsupportedFormat")
          ELSE LoadAddressed(input.file,
                             track_addr(input.file.data, AsI16(input.file.ntrks)))
    /\ UNCHANGED <<input, rt, timed, render_vars>>

\* lines 213-219: read_track on the slice of each chunk; a slice past the
\* end of the data panics
TrackResults(in, loop_type, addrs) ==
    [i \in 1..Len(addrs) |->
        IF addrs[i].start + addrs[i].size > Len(in.data)
        THEN [RtIdle EXCEPT !.pc = "panic"]
        ELSE read_track(SubSeq(in.data, addrs[i].start + 1, addrs[i].start + addrs[i].size),
                        0, loop_type, in.checks)]

\* lines 222-225: the results are popped from the end; the first Err popped
\* is returned
RECURSIVE PopAll(_, _)
\* the results taken from the front instead
PopAllFromFront(tracks_result, tracks) ==
    IF tracks_result = <<>> THEN [err |-> "", tracks |-> tracks]
    ELSE IF Head(tracks_result).pc # "ok"
        THEN [err |-> Head(tracks_result).err, tracks |-> <<>>]
    ELSE PopAll(Tail(tracks_result), Append(tracks, Head(tracks_result).events))

PopAll(tracks_result, tracks) ==
    IF tracks_result = <<>> THEN [err |-> "", tracks |-> tracks]
    ELSE IF tracks_result[Len(tracks_result)].pc # "ok"
        THEN [err |-> tracks_result[Len(tracks_result)].err, tracks |-> <<>>]
    ELSE PopAll(SubSeq(tracks_result, 1, Len(tracks_result) - 1),
                Append(tracks, tracks_result[Len(tracks_result)].events))

\* lines 227-234: the tracks that hold a TEMPO_CHANGE, in the order of tracks
TempoTrackList(tracks) ==
    LET Keep(x) == HasTempo(x) IN SelectSeq(tracks, Keep)

\* lines 227-235: tempo_track.first() decides whether the for_each runs
LoadPopped(m, popped, tempo) ==
    IF popped.err # "" THEN MidiErr(popped.err)
    ELSE IF tempo = <<>>
        THEN [m EXCEPT !.pc = "loop", !.parsed = popped.tracks, !.tracks = popped.tracks]
    ELSE IF popped.tracks = <<>>
        THEN [m EXCEPT !.pc = "loop"]
    ELSE [m EXCEPT !.pc = "merge", !.parsed = popped.tracks, !.tracks = popped.tracks,
                   !.tempo_track = tempo[1], !.pending = DOMAIN popped.tracks]

LoadResults(m, results) ==
    IF \E i \in DOMAIN results : results[i].pc = "panic" THEN MidiPanic(m)
    ELSE LoadPopped(m, PopAll(results, <<>>), TempoTrackList(PopAll(results, <<>>).tracks))

\* lines 213-235
LoadRead ==
    /\ midi.pc = "read"
    /\ midi' = LoadResults(midi, TrackResults(input.file, input.loop_type,
                                              midi.track_addrs))
    /\ UNCHANGED <<input, rt, timed, render_vars>>

\* e inserted among the elements of its tick, at any place
InsertAmongEqual(sorted, e) ==
    {SubSeq(sorted, 1, p) \o <<e>> \o SubSeq(sorted, p + 1, Len(sorted)) :
        p \in {q \in 0..Len(sorted) :
                  /\ \A i \in 1..q : sorted[i].tick <= e.tick
                  /\ \A i \in (q + 1)..Len(sorted) : sorted[i].tick >= e.tick}}

RECURSIVE UnstableSortsFrom(_, _)
UnstableSortsFrom(sorts, rest) ==
    IF rest = <<>> THEN sorts
    ELSE UnstableSortsFrom(UNION {InsertAmongEqual(x, Head(rest)) : x \in sorts},
                           Tail(rest))

\* sort_unstable_by(|a, b| a.1.cmp(&b.1)): every order by tick is a possible
\* result, the order of equal ticks is not specified
sort_unstable_by_tick(track) == UnstableSortsFrom({<<>>}, track)

\* lines 237-240: the closure of the for_each for track i
MergeTrack(i) ==
    /\ midi.pc = "merge"
    /\ i \in midi.pending
    /\ \E sorted \in sort_unstable_by_tick(Extend(midi.tracks[i], midi.tempo_track)) :
          midi' = [midi EXCEPT !.tracks[i] = sorted,
                               !.pending = @ \ {i},
                               !.pc = IF midi.pending = {i} THEN "loop" ELSE "merge"]
    /\ UNCHANGED <<input, rt, timed, render_vars>>

\* lines 249-256: the first index whose tick is >= loop_point
RECURSIVE FirstAtOrAfter(_, _, _)
FirstAtOrAfter(track, loop_point, i) ==
    IF i > Len(track) THEN 0
    ELSE IF track[i].tick >= loop_point THEN i
    ELSE FirstAtOrAfter(track, loop_point, i + 1)

InsertAt(track, i, e) ==
    SubSeq(track, 1, i - 1) \o <<e>> \o SubSeq(track, i, Len(track))

\* lines 248-258 on tracks[0]
InjectLoopStart(track, loop_point) ==
    IF loop_point <= track[Len(track)].tick
    THEN InsertAt(track, FirstAtOrAfter(track, loop_point, 1), Ev(loop_start, loop_point))
    ELSE Append(track, Ev(loop_start, loop_point))

\* lines 243-260: tracks[0] and track.last().unwrap() panic when there is
\* no track or no event
LoadLoop ==
    /\ midi.pc = "loop"
    /\ midi' =
          IF input.loop_type.kind = "LoopPoint" /\ input.loop_type.point # 0
          THEN IF midi.tracks = <<>> \/ midi.tracks[1] = <<>> THEN MidiPanic(midi)
               ELSE [midi EXCEPT !.pc = "cast",
                                 !.tracks[1] = InjectLoopStart(@, input.loop_type.point)]
          ELSE [midi EXCEPT !.pc = "cast"]
    /\ UNCHANGED <<input, rt, timed, render_vars>>

\* lines 438-441: cast_delta on every track
CastAll(tracks, resolution, checks) ==
    [i \in DOMAIN tracks |-> cast_delta(tracks[i], resolution, checks)]

\* lines 443-450: max_by(partial_cmp().unwrap_or(Equal)); when a length is
\* not a finite number the comparison is not an order and any of the
\* lengths may be the result
LengthsOf(casts, resolution) ==
    IF casts = <<>> THEN {Fin(0)}
    ELSE IF \A i \in DOMAIN casts : casts[i].length.k = "fin"
        THEN {casts[i].length : i \in
                 {j \in DOMAIN casts :
                     \A k \in DOMAIN casts :
                         FLe(casts[k].length, casts[j].length, resolution)}}
    ELSE {casts[i].length : i \in DOMAIN casts}

LoadCasted(m, casts, length) ==
    IF \E i \in DOMAIN casts : casts[i].panic THEN MidiPanic(m)
    ELSE [m EXCEPT !.pc = "ok", !.length = length,
                   !.timed = [i \in DOMAIN casts |->
                                 [messages |-> casts[i].messages, times |-> casts[i].times]]]

\* line 262, merge_tracks (lines 437-458), and Ok(Self { tracks, length })
LoadCast ==
    /\ midi.pc = "cast"
    /\ \E length \in LengthsOf(CastAll(midi.tracks, midi.resolution, input.file.checks),
                               midi.resolution) :
          midi' = LoadCasted(midi, CastAll(midi.tracks, midi.resolution,
                                           input.file.checks), length)
    /\ UNCHANGED <<input, rt, timed, render_vars>>

\* the loop_type argument
LoadLoopTypes == {LoopPoint(0), LoopPoint(240), LoopPoint(1000), LoopKind("FinalFantasy")}

LoadFiles ==
    { FileOf(1, Len(b), 480, b) : b \in TrackLists }
    \cup { FileOf(1, 2, d, <<TrackTempo, TrackNote>>) : d \in Divisions }
    \cup { FileOf(f, 1, 480, <<TrackTempo2>>) : f \in {0, 2} }
    \cup { FileOf(1, n, 480, <<TrackTempo, TrackNote>>) : n \in {0, 1, 3, 65535} }
    \cup { FileOf(1, 2, 480, <<TrackEmpty, TrackTempo>>),
           [FileOf(1, 2, 480, <<TrackTempo>>) EXCEPT
               !.data = Chunk(TrackTempo) \o ChunkBadTag(TrackNote)],
           [FileOf(1, 1, 480, <<TrackTempo>>) EXCEPT !.tag = "RIFF"],
           [FileOf(1, 1, 480, <<TrackTempo>>) EXCEPT !.size = 7] }

InitLoad ==
    /\ input \in [file : LoadFiles, loop_type : LoadLoopTypes]
    /\ rt = RtIdle
    /\ timed = NoTimed /\ midi = NoMidi
    /\ InitRender

NextLoad ==
    \/ LoadHeader
    \/ LoadRead
    \/ \E i \in 1..MaxTracks : MergeTrack(i)
    \/ LoadLoop
    \/ LoadCast

SpecLoad == InitLoad /\ [][NextLoad]_vars

(***************************************************************************)
(* Properties of MidiFile::new_with_loop_type                              *)
(***************************************************************************)
\* the tracks whose closure of the for_each has run
Merged ==
    IF midi.pc \in {"merge", "loop"} /\ midi.tempo_track # <<>>
    THEN DOMAIN midi.tracks \ midi.pending ELSE {}

\* C20: in MidiFile::new_with_loop_type, after the tempo-map events are
\* merged into a track the track is sorted by tick ascending and events of
\* equal tick keep their relative parse order (the events of the track, then
\* those of the tempo map), for every possible outcome of the sort.
C20_MergeSortedStable ==
    \A i \in Merged :
        /\ TicksNonDecreasing(midi.tracks[i])
        /\ \A k \in 1..Len(midi.tracks[i]) :
              AtTick(midi.tracks[i], midi.tracks[i][k].tick) =
                  AtTick(Extend(midi.parsed[i], midi.tempo_track), midi.tracks[i][k].tick)

\* the events of the file's k-th MTrk chunk, k from 1, as read_track parses
\* it with the loop type of the call
ChunkEvents(k) ==
    read_track(input.file.data,
               WalkFrom(input.file.data, 0, k)[k].offset,
               input.loop_type, input.file.checks).events

LoopStarts(track) == {j \in DOMAIN track : IsType(track[j], LOOP_START)}

\* the match of lines 243-260 has run
LoopDone == midi.pc \in {"cast", "ok"}

\* C21: with LoopPoint(p), p # 0, new_with_loop_type inserts exactly one
\* (LOOP_START, p) event, into track 0, which is the file's first MTrk chunk,
\* and into no other track: immediately before the first event with tick
\* >= p, or at the end when p exceeds the last tick; the track stays sorted
\* by tick; with p = 0 no track gets a LOOP_START.
C21_LoopStartInFirstTrack ==
    /\ LoopDone /\ input.loop_type.kind = "LoopPoint" /\ input.loop_type.point # 0 =>
          /\ midi.parsed[1] = ChunkEvents(1)
          /\ Cardinality(LoopStarts(midi.tracks[1])) = 1
          /\ \A j \in LoopStarts(midi.tracks[1]) :
                /\ midi.tracks[1][j] = Ev(loop_start, input.loop_type.point)
                /\ \A i \in 1..(j - 1) : midi.tracks[1][i].tick < input.loop_type.point
                /\ \A i \in (j + 1)..Len(midi.tracks[1]) :
                      midi.tracks[1][i].tick >= input.loop_type.point
          /\ TicksNonDecreasing(midi.tracks[1])
          /\ \A t \in 2..Len(midi.tracks) : LoopStarts(midi.tracks[t]) = {}
    /\ LoopDone /\ input.loop_type = LoopPoint(0) =>
          \A t \in DOMAIN midi.tracks : LoopStarts(midi.tracks[t]) = {}

\* the loop of lines 222-225 has ended without an error
TracksLoaded == midi.pc \in {"merge", "loop", "cast", "ok"}

\* C22: the loaded tracks are in the opposite order of the file: tracks[i]
\* is built from MTrk chunk number track_count - 1 - i (both counted from
\* 0), because the parsed results are popped from the end of the vector.
\* Checked on `tracks` as the loop leaves it, and from then on: every event
\* of that track stays in tracks[i].
C22_TracksReversed ==
    TracksLoaded =>
        /\ AsI16(input.file.ntrks) >= 0 => Len(midi.parsed) = AsI16(input.file.ntrks)
        /\ Len(midi.tracks) = Len(midi.parsed)
        /\ midi.tracks = midi.parsed =>
              \A i \in DOMAIN midi.tracks :
                  midi.tracks[i] = ChunkEvents(Len(midi.tracks) + 1 - i)
        /\ \A i \in DOMAIN midi.parsed :
              \A k \in DOMAIN midi.parsed[i] :
                  \E j \in DOMAIN midi.tracks[i] : midi.tracks[i][j] = midi.parsed[i][k]

\* a file of two different tracks has been loaded
C22_Witness ==
    /\ midi.pc = "ok"
    /\ input.file.data = Chunks(<<TrackTempo, TrackNote>>)
    /\ input.file.ntrks = 2
    /\ midi.parsed = <<Parsed(TrackNote), Parsed(TrackTempo)>>

(***************************************************************************)
(* Properties of the messages read_track emits                             *)
(***************************************************************************)
ChannelVoice == {128, 144, 160, 176, 192, 208, 224}

\* C23: every NORMAL message in a list read_track returns has a command in
\* 0x80, 0x90, .., 0xE0: no data byte is decoded against last_status = 0 or
\* against a meta or SysEx status byte left in last_status, and no first
\* byte 0xF1..0xFE other than 0xF7 is emitted as a channel message.
C23_ChannelVoiceCommands ==
    rt.pc = "ok" =>
        \A i \in DOMAIN rt.events :
            IsType(rt.events[i], NORMAL) => rt.events[i].msg.command \in ChannelVoice

====
